---------------------------- MODULE Spec2Model ----------------------------
(***************************************************************************)
(* Model of dso-data-type-generalizer (src/main.py): the command-line      *)
(* entry point main() and the routine generalize_data_type(df, type_map).  *)
(*                                                                         *)
(* Text is modelled as a sequence of one-character strings, so that        *)
(* str.split, str.strip and str.lower are computed character by character. *)
(* A cell of a DataFrame is a record [k, n, s]: k is the kind of the value *)
(* ("str", "int", "float", "nan", "bool", "dt"), n its number (floats are  *)
(* held in tenths, booleans as 0/1) and s its text.  The library calls     *)
(* (Series.astype, read_csv, to_csv) follow pandas 1.x/2.x with numpy      *)
(* dtypes, the versions in which a text column has dtype 'object'.         *)
(***************************************************************************)
EXTENDS Integers, Sequences, FiniteSets, TLC

(* ------------------------------ bounds -------------------------------- *)
MaxSegs == 2
MaxCols == 2
Rows    == 2

(* ------------------------------- text --------------------------------- *)
Vocab == {"int", "float", "str", "bool", "object"}

W_int    == <<"i","n","t">>
W_float  == <<"f","l","o","a","t">>
W_str    == <<"s","t","r">>
W_bool   == <<"b","o","o","l">>
W_object == <<"o","b","j","e","c","t">>
W_foo    == <<"f","o","o">>
W_nan    == <<"n","a","n">>
W_True   == <<"T","r","u","e">>
W_False  == <<"F","a","l","s","e">>

Word(label) ==
    CASE label = "int"    -> W_int
      [] label = "float"  -> W_float
      [] label = "str"    -> W_str
      [] label = "bool"   -> W_bool
      [] label = "object" -> W_object

LowerChar(c) ==
    CASE c = "A" -> "a" [] c = "B" -> "b" [] c = "C" -> "c" [] c = "E" -> "e"
      [] c = "F" -> "f" [] c = "I" -> "i" [] c = "J" -> "j" [] c = "L" -> "l"
      [] c = "N" -> "n" [] c = "O" -> "o" [] c = "R" -> "r" [] c = "S" -> "s"
      [] c = "T" -> "t" [] OTHER -> c

\* str.lower()
Lower(s) == [i \in 1..Len(s) |-> LowerChar(s[i])]

IsSpace(c) == c \in {" ", "\t"}

RECURSIVE LStrip(_)
LStrip(s) == IF s # <<>> /\ IsSpace(Head(s)) THEN LStrip(Tail(s)) ELSE s

RECURSIVE RStrip(_)
RStrip(s) ==
    IF s # <<>> /\ IsSpace(s[Len(s)]) THEN RStrip(SubSeq(s, 1, Len(s) - 1)) ELSE s

\* str.strip()
Strip(s) == RStrip(LStrip(s))

\* str.split(sep): the pieces between the separators, at least one piece
RECURSIVE SplitAcc(_, _, _)
SplitAcc(s, sep, cur) ==
    IF s = <<>> THEN <<cur>>
    ELSE IF Head(s) = sep THEN <<cur>> \o SplitAcc(Tail(s), sep, <<>>)
    ELSE SplitAcc(Tail(s), sep, Append(cur, Head(s)))

Split(s, sep) == SplitAcc(s, sep, <<>>)

\* sep.join(parts)
RECURSIVE Join(_, _)
Join(parts, sep) ==
    IF parts = <<>> THEN <<>>
    ELSE IF Len(parts) = 1 THEN parts[1]
    ELSE parts[1] \o <<sep>> \o Join(Tail(parts), sep)

\* the vocabulary member a token spells, or "?" when it spells none
LabelOf(tok) ==
    IF \E l \in Vocab : Word(l) = tok
    THEN CHOOSE l \in Vocab : Word(l) = tok
    ELSE "?"

(* ------------------- the type map, segment by segment ------------------ *)
\* faulty variant: the target token is not checked against the vocabulary
SegError_NoNewCheck(conversion) ==
    LET parts == Split(conversion, ":") IN
    IF Len(parts) # 2 THEN "Malformed"
    ELSE IF LabelOf(Lower(Strip(parts[1]))) = "?" THEN "InvalidOld"
    ELSE "none"

\* one iteration of the loop of lines 41-51 on segment `conversion`:
\* the error it raises ("none" when it raises nothing) ...
SegError(conversion) ==
    LET parts == Split(conversion, ":") IN
    IF Len(parts) # 2 THEN "Malformed"
    ELSE IF LabelOf(Lower(Strip(parts[1]))) = "?" THEN "InvalidOld"
    ELSE IF LabelOf(Lower(Strip(parts[2]))) = "?" THEN "InvalidNew"
    ELSE "none"

SegOld(conversion) == LabelOf(Lower(Strip(Split(conversion, ":")[1])))
SegNew(conversion) == LabelOf(Lower(Strip(Split(conversion, ":")[2])))

\* ... and the assignment type_map[old_type] = new_type of line 51
EmptyMap == [l \in {} |-> "int"]

\* faulty variant: a label already mapped keeps its first target
MapAssign_KeepFirst(m, old, new) ==
    [l \in DOMAIN m \cup {old} |-> IF l \in DOMAIN m THEN m[l] ELSE new]

MapAssign(m, old, new) ==
    [l \in DOMAIN m \cup {old} |-> IF l = old THEN new ELSE m[l]]


(* --------------------------- cells and columns ------------------------- *)
StrCell(t)   == [k |-> "str",   n |-> 0, s |-> t]
IntCell(i)   == [k |-> "int",   n |-> i, s |-> <<>>]
FloatCell(t) == [k |-> "float", n |-> t, s |-> <<>>]   \* t tenths: 15 is 1.5
NaN          == [k |-> "nan",   n |-> 0, s |-> <<>>]   \* float('nan'), a missing cell
BoolCell(b)  == [k |-> "bool",  n |-> IF b THEN 1 ELSE 0, s |-> <<>>]
DtCell       == [k |-> "dt",    n |-> 0, s |-> <<>>]   \* Timestamp('1970-01-01')

W_date == <<"1","9","7","0","-","0","1","-","0","1">>

Digit(d) ==
    CASE d = 0 -> "0" [] d = 1 -> "1" [] d = 2 -> "2" [] d = 3 -> "3" [] d = 4 -> "4"
      [] d = 5 -> "5" [] d = 6 -> "6" [] d = 7 -> "7" [] d = 8 -> "8" [] d = 9 -> "9"

DigitChars == {"0","1","2","3","4","5","6","7","8","9"}

DigitVal(c) == CHOOSE d \in 0..9 : Digit(d) = c

RECURSIVE NatText(_)
NatText(i) == IF i < 10 THEN <<Digit(i)>> ELSE NatText(i \div 10) \o <<Digit(i % 10)>>

IntText(i) == IF i < 0 THEN <<"-">> \o NatText(-i) ELSE NatText(i)

Abs(i) == IF i < 0 THEN -i ELSE i

\* repr of a float held in tenths: "-1.5", "2.0"
FloatText(t) ==
    (IF t < 0 THEN <<"-">> ELSE <<>>) \o NatText(Abs(t) \div 10) \o <<".">>
        \o <<Digit(Abs(t) % 10)>>

\* str(value), what Series.astype(str) puts in a cell
StrOf(c) ==
    CASE c.k = "str"   -> c.s
      [] c.k = "int"   -> IntText(c.n)
      [] c.k = "float" -> FloatText(c.n)
      [] c.k = "nan"   -> W_nan
      [] c.k = "bool"  -> IF c.n = 1 THEN W_True ELSE W_False
      [] c.k = "dt"    -> W_date

IsDigits(s) == s # <<>> /\ \A i \in 1..Len(s) : s[i] \in DigitChars

RECURSIVE NatVal(_)
NatVal(s) == IF s = <<>> THEN 0 ELSE 10 * NatVal(SubSeq(s, 1, Len(s) - 1)) + DigitVal(s[Len(s)])

Unsigned(s) == IF s # <<>> /\ Head(s) \in {"-", "+"} THEN Tail(s) ELSE s
Sign(s)     == IF s # <<>> /\ Head(s) = "-" THEN -1 ELSE 1

\* int(text): the integer literals, surrounding blanks allowed
IntParses(s) == IsDigits(Unsigned(Strip(s)))
IntParse(s)  == Sign(Strip(s)) * NatVal(Unsigned(Strip(s)))

\* float(text): "nan" in any case, or digits with at most one fraction digit
\* (the floats of this model are tenths)
FloatIsNan(s)  == Lower(Unsigned(Strip(s))) = W_nan
FloatParses(s) ==
    LET u == Unsigned(Strip(s))
        p == Split(u, ".")
    IN  \/ FloatIsNan(s)
        \/ Len(p) = 1 /\ IsDigits(p[1])
        \/ Len(p) = 2 /\ IsDigits(p[1]) /\ Len(p[2]) = 1 /\ IsDigits(p[2])
FloatParse(s) ==
    LET u == Unsigned(Strip(s))
        p == Split(u, ".")
    IN  IF FloatIsNan(s) THEN NaN
        ELSE FloatCell(Sign(Strip(s)) *
                 (10 * NatVal(p[1]) + (IF Len(p) = 2 THEN NatVal(p[2]) ELSE 0)))

\* truncation toward zero of a float held in tenths
Trunc(t) == IF t < 0 THEN -((-t) \div 10) ELSE t \div 10

Col(dtype, cells) == [dtype |-> dtype, cells |-> cells]

MapCells(col, F(_), dtype) ==
    Col(dtype, [i \in 1..Len(col.cells) |-> F(col.cells[i])])

Raised(exc)  == [ok |-> FALSE, exc |-> exc, col |-> Col("object", <<>>)]
Done(col)    == [ok |-> TRUE, exc |-> "none", col |-> col]

\* faulty variant: repr instead of str, text comes out quoted
AsTypeStr_Repr(col) ==
    MapCells(col, LAMBDA c : StrCell(<<"'">> \o StrOf(c) \o <<"'">>), "object")

\* Series.astype(str): never raises; the result has dtype object
AsTypeStr(col) == MapCells(col, LAMBDA c : StrCell(StrOf(c)), "object")

\* Series.astype(float): the outcomes (one, but where pandas versions differ)
FloatOfCell(c) ==
    CASE c.k = "str"   -> FloatParse(c.s)
      [] c.k = "int"   -> FloatCell(10 * c.n)
      [] c.k = "bool"  -> FloatCell(10 * c.n)
      [] OTHER         -> c

AsTypeFloat(col) ==
    IF col.dtype = "datetime64" THEN {Raised("TypeError")}
    ELSE IF \E i \in 1..Len(col.cells) :
                col.cells[i].k = "str" /\ ~FloatParses(col.cells[i].s)
         THEN {Raised("ValueError")}
    ELSE {Done(MapCells(col, FloatOfCell, "float64"))}

\* Series.astype(int): NaN cannot be an integer; fractions are truncated
IntOfCell(c) ==
    CASE c.k = "str"   -> IntCell(IntParse(c.s))
      [] c.k = "float" -> IntCell(Trunc(c.n))
      [] c.k = "bool"  -> IntCell(c.n)
      [] c.k = "dt"    -> IntCell(0)
      [] OTHER         -> c

AsTypeInt(col) ==
    IF \E i \in 1..Len(col.cells) :
            \/ col.cells[i].k = "nan"
            \/ col.cells[i].k = "str" /\ ~IntParses(col.cells[i].s)
    THEN {Raised("ValueError")}
    ELSE {Done(MapCells(col, IntOfCell, "int64"))}

\* Series.astype(bool): truthiness of every cell (NaN is true, "" is false)
BoolOfCell(c) ==
    CASE c.k = "str"   -> BoolCell(c.s # <<>>)
      [] c.k = "int"   -> BoolCell(c.n # 0)
      [] c.k = "float" -> BoolCell(c.n # 0)
      [] c.k = "nan"   -> BoolCell(TRUE)
      [] OTHER         -> c

AsTypeBool(col) ==
    IF col.dtype = "datetime64"
    THEN {Raised("TypeError"), Done(MapCells(col, LAMBDA c : BoolCell(TRUE), "bool"))}
    ELSE {Done(MapCells(col, BoolOfCell, "bool"))}


(* ----------------------- pd.read_csv and df.to_csv --------------------- *)
\* A CSV file is modelled after its split into fields: a sequence of columns,
\* each the sequence of the texts of its fields (the header row left out).
NaTexts   == {<<>>, W_nan, <<"N","a","N">>, <<"N","A">>}
BoolTexts == {W_True, W_False}

\* read_csv's type inference for one column of field texts
ReadColumn(texts) ==
    LET idx   == 1..Len(texts)
        isNa(i) == texts[i] \in NaTexts
        some  == \E i \in idx : ~isNa(i)
        anyNa == \E i \in idx : isNa(i)
    IN  IF some /\ ~anyNa /\ \A i \in idx : IntParses(texts[i])
        THEN Col("int64", [i \in idx |-> IntCell(IntParse(texts[i]))])
        ELSE IF \A i \in idx : isNa(i) \/ FloatParses(texts[i])
        THEN Col("float64", [i \in idx |-> IF isNa(i) THEN NaN ELSE FloatParse(texts[i])])
        ELSE IF \A i \in idx : isNa(i) \/ texts[i] \in BoolTexts
        THEN IF anyNa
             THEN Col("object", [i \in idx |-> IF isNa(i) THEN NaN
                                                ELSE BoolCell(texts[i] = W_True)])
             ELSE Col("bool", [i \in idx |-> BoolCell(texts[i] = W_True)])
        ELSE Col("object", [i \in idx |-> IF isNa(i) THEN NaN ELSE StrCell(texts[i])])

ReadCsv(grid) == [j \in 1..Len(grid) |-> ReadColumn(grid[j])]

\* to_csv's field for one cell: a missing value is written as the empty field
CsvField(c) == IF c.k = "nan" THEN <<>> ELSE StrOf(c)

ToCsv(table) ==
    [j \in 1..Len(table) |-> [i \in 1..Len(table[j].cells) |-> CsvField(table[j].cells[i])]]

(* ------------------------------ inputs --------------------------------- *)
\* columns of a CSV file: every field `base`, but the last one `last`
Variants ==
    { <<W_foo, W_foo>>, <<W_foo, <<>> >>, <<W_foo, <<"1">> >>, <<W_True, <<>> >>,
      << <<"2">>, <<"2">> >>, << <<"2">>, <<"0">> >>,
      << <<"-","1",".","5">>, <<"-","1",".","5">> >>, << <<"-","1",".","5">>, <<>> >>,
      <<W_True, W_True>>, <<W_True, W_False>> }

ColumnTexts(r) == { [i \in 1..r |-> IF i = r THEN v[2] ELSE v[1]] : v \in Variants }

Tuples(S, n) == [1..n -> S]

CsvFiles == UNION { Tuples(ColumnTexts(Rows), c) : c \in 1..MaxCols }

\* DataFrames a caller of generalize_data_type can pass: those read_csv builds,
\* and columns it never builds (a datetime column, a text column of numerals)
OtherColumns(r) ==
    { Col("datetime64", [i \in 1..r |-> DtCell]),
      Col("object", [i \in 1..r |-> StrCell(<<"1">>)]) }

AnyColumns(r) == { ReadColumn(t) : t \in ColumnTexts(r) } \cup OtherColumns(r)

AnyTables == UNION { Tuples(AnyColumns(Rows), c) : c \in 1..MaxCols }

\* segments of a --type_map string
Seg(old, new) == old \o <<":">> \o new

SegChoices ==
    { Seg(W_int, W_float), Seg(W_int, W_str), Seg(W_str, W_object),
      Seg(W_object, W_bool), Seg(W_bool, W_int), Seg(W_float, W_float),
      Seg(<<" ","I","n","t"," ">>, <<" ","F","L","O","A","T">>),
      Seg(W_foo, W_int), Seg(W_int, W_foo),
      <<"i","n","t","-","f","l","o","a","t">>,
      Seg(W_int, Seg(W_float, W_str)),
      <<>> }

MapStrings ==
    UNION { { Join(t, ",") : t \in Tuples(SegChoices, n) } : n \in 1..MaxSegs }

\* the --type_map strings of the runs of main()
MainMaps ==
    { Seg(W_int, W_float), Seg(W_str, W_object), Seg(W_object, W_object),
      Seg(W_float, W_int), Seg(W_str, W_float), Seg(W_bool, W_str),
      Seg(W_int, W_bool), Seg(W_str, W_int), Seg(W_object, W_float),
      Join(<<Seg(W_int, W_float), Seg(W_str, W_object)>>, ","),
      <<"i","n","t","-","f","l","o","a","t">>, Seg(W_int, W_foo) }

IntFloat == Seg(W_int, W_float)

\* the type_map_str arguments of the direct calls of generalize_data_type
CallMaps ==
    { IntFloat, Seg(W_object, W_float), Seg(W_str, W_int), Seg(W_float, W_int),
      Seg(W_str, W_object), Seg(W_object, W_str),
      Join(<<Seg(W_object, W_bool), Seg(W_str, W_float)>>, ",") }

\* the table of the calls that try the type-map strings
ParseTables ==
    { << ReadColumn([i \in 1..Rows |-> IF i = Rows THEN <<>> ELSE W_foo]),
         ReadColumn([i \in 1..Rows |-> <<"2">>]) >> }

(* ------------------------------- state --------------------------------- *)
VARIABLES
    pc,            \* where the program is
    typeMapStr,    \* args.type_map / type_map_str
    exists,        \* whether input_file exists when main checks it
    file,          \* the input CSV file
    df,            \* the DataFrame
    loaded,        \* df as read_csv returned it (as passed by the caller)
    type_map,      \* the dict built by lines 39-51
    segIdx,        \* position of the loop of line 41
    colIdx,        \* position of the loop of line 57
    col_type_name, \* the label inferred for column colIdx
    colState,      \* per column: Unclassified, Classified, NoOp, Converted, Failed
    exc,           \* the exception propagating, "none" when there is none
    exitCode,      \* -1 while the process runs
    outFile,       \* the output file
    reached,       \* the steps begun so far
    pass,          \* how many times generalize_data_type was called
    prev           \* df and type_map at the return of the first call

vars == <<pc, typeMapStr, exists, file, df, loaded, type_map, segIdx, colIdx, col_type_name,
          colState, exc, exitCode, outFile, reached, pass, prev>>

NoFile  == [status |-> "absent", grid |-> <<>>]
NoExc   == [type |-> "none", at |-> "none"]
NoPrev  == [df |-> <<>>, type_map |-> EmptyMap, str |-> <<>>, exc |-> NoExc]


(* ------------------------ generalize_data_type ------------------------- *)
Segments == Split(typeMapStr, ",")

Unclassified(table) == [j \in 1..Len(table) |-> "Unclassified"]

\* faulty variant: the except block of lines 53-55 logs the error and does not raise it again
ParseSegment_NoReraise ==
    /\ pc = "parse"
    /\ LET conversion == Segments[segIdx]
           err        == SegError(conversion)
           last       == err # "none" \/ segIdx = Len(Segments)
       IN  /\ type_map' = IF err = "none"
                          THEN MapAssign(type_map, SegOld(conversion), SegNew(conversion))
                          ELSE type_map
           /\ exc' = IF err = "none" THEN exc ELSE [type |-> "ValueError", at |-> "parse"]
           /\ pc' = IF ~last THEN "parse"
                    ELSE IF Len(df) = 0 THEN "returned" ELSE "classify"
           /\ segIdx' = IF ~last THEN segIdx + 1 ELSE segIdx
    /\ reached' = reached \cup {"parse"}
    /\ UNCHANGED <<typeMapStr, exists, file, df, loaded, colIdx, col_type_name, colState,
                   exitCode, outFile, pass, prev>>

\* lines 39-55: one iteration of the parsing loop; a ValueError is logged and
\* raised again, the last segment leads on to the loop over the columns
ParseSegment ==
    /\ pc = "parse"
    /\ LET conversion == Segments[segIdx]
           err        == SegError(conversion)
       IN  /\ type_map' = IF err = "none"
                          THEN MapAssign(type_map, SegOld(conversion), SegNew(conversion))
                          ELSE type_map
           /\ exc' = IF err = "none" THEN exc ELSE [type |-> "ValueError", at |-> "parse"]
           /\ pc' = IF err # "none" THEN "raised"
                    ELSE IF segIdx < Len(Segments) THEN "parse"
                    ELSE IF Len(df) = 0 THEN "returned" ELSE "classify"
           /\ segIdx' = IF err = "none" /\ segIdx < Len(Segments) THEN segIdx + 1 ELSE segIdx
    /\ reached' = reached \cup {"parse"}
    /\ UNCHANGED <<typeMapStr, exists, file, df, loaded, colIdx, col_type_name, colState,
                   exitCode, outFile, pass, prev>>

\* lines 63-67: df[col].astype(str) inside try/except
TryAsTypeStr(col) == Done(AsTypeStr(col))

\* faulty variant: a column of dtype object is labelled "object"
InferLabel_ObjectStaysObject(col) ==
    IF col.dtype = "object"
    THEN LET r == TryAsTypeStr(col)
         IN  IF r.ok THEN [label |-> "object", col |-> r.col]
             ELSE [label |-> "object", col |-> col]
    ELSE IF col.dtype = "int64"   THEN [label |-> "int", col |-> col]
    ELSE IF col.dtype = "float64" THEN [label |-> "float", col |-> col]
    ELSE IF col.dtype = "bool"    THEN [label |-> "bool", col |-> col]
    ELSE [label |-> "object", col |-> col]

\* lines 58-78: the label of a column, and the column as inference leaves it
InferLabel(col) ==
    IF col.dtype = "object"
    THEN LET r == TryAsTypeStr(col)
         IN  IF r.ok THEN [label |-> "str", col |-> r.col]
             ELSE [label |-> "object", col |-> col]
    ELSE IF col.dtype = "int64"   THEN [label |-> "int", col |-> col]
    ELSE IF col.dtype = "float64" THEN [label |-> "float", col |-> col]
    ELSE IF col.dtype = "bool"    THEN [label |-> "bool", col |-> col]
    ELSE [label |-> "object", col |-> col]

Classify ==
    /\ pc = "classify"
    /\ LET r == InferLabel(df[colIdx])
       IN  /\ df' = [df EXCEPT ![colIdx] = r.col]
           /\ col_type_name' = r.label
    /\ colState' = [colState EXCEPT ![colIdx] = "Classified"]
    /\ pc' = "cast"
    /\ reached' = reached \cup {"columns"}
    /\ UNCHANGED <<typeMapStr, exists, file, loaded, type_map, segIdx, colIdx, exc, exitCode,
                   outFile, pass, prev>>

\* lines 84-96: the cast picked by the target label
CastTo(new_type, col) ==
    CASE new_type = "float"  -> AsTypeFloat(col)
      [] new_type = "str"    -> {Done(AsTypeStr(col))}
      [] new_type = "int"    -> AsTypeInt(col)
      [] new_type = "bool"   -> AsTypeBool(col)
      [] new_type = "object" -> {Done(col)}
      [] OTHER               -> {Raised("ValueError")}

\* faulty variant: a failed cast is logged and the loop goes on to the next column
Cast_KeepGoing ==
    /\ pc = "cast"
    /\ LET inMap == col_type_name \in DOMAIN type_map
           outs  == IF inMap THEN CastTo(type_map[col_type_name], df[colIdx])
                    ELSE {Done(df[colIdx])}
       IN  \E out \in outs :
             /\ df' = IF out.ok THEN [df EXCEPT ![colIdx] = out.col] ELSE df
             /\ colState' = [colState EXCEPT ![colIdx] =
                                IF ~inMap THEN "NoOp"
                                ELSE IF out.ok THEN "Converted" ELSE "Failed"]
             /\ exc' = IF out.ok THEN exc ELSE [type |-> out.exc, at |-> "cast"]
             /\ pc' = IF colIdx < Len(df) THEN "classify" ELSE "returned"
             /\ colIdx' = IF colIdx < Len(df) THEN colIdx + 1 ELSE colIdx
    /\ UNCHANGED <<typeMapStr, exists, file, loaded, type_map, segIdx, col_type_name,
                   exitCode, outFile, reached, pass, prev>>

\* lines 80-103: no rule for the label, or the cast and its outcome
Cast ==
    /\ pc = "cast"
    /\ LET inMap == col_type_name \in DOMAIN type_map
           outs  == IF inMap THEN CastTo(type_map[col_type_name], df[colIdx])
                    ELSE {Done(df[colIdx])}
       IN  \E out \in outs :
             /\ df' = IF out.ok THEN [df EXCEPT ![colIdx] = out.col] ELSE df
             /\ colState' = [colState EXCEPT ![colIdx] =
                                IF ~inMap THEN "NoOp"
                                ELSE IF out.ok THEN "Converted" ELSE "Failed"]
             /\ exc' = IF out.ok THEN exc ELSE [type |-> out.exc, at |-> "cast"]
             /\ pc' = IF ~out.ok THEN "raised"
                      ELSE IF colIdx < Len(df) THEN "classify" ELSE "returned"
             /\ colIdx' = IF out.ok /\ colIdx < Len(df) THEN colIdx + 1 ELSE colIdx
    /\ UNCHANGED <<typeMapStr, exists, file, loaded, type_map, segIdx, col_type_name, exitCode,
                   outFile, reached, pass, prev>>

(* -------------------------------- main --------------------------------- *)
\* faulty variant: the missing file is logged and main goes on
CheckExists_NoExit ==
    /\ pc = "start"
    /\ pc' = "read_csv"
    /\ exitCode' = exitCode
    /\ reached' = reached \cup {"exists"}
    /\ UNCHANGED <<typeMapStr, exists, file, df, loaded, type_map, segIdx, colIdx,
                   col_type_name, colState, exc, outFile, pass, prev>>

\* lines 120-123: os.path.exists(input_file)
CheckExists ==
    /\ pc = "start"
    /\ pc' = IF exists THEN "read_csv" ELSE "exit"
    /\ exitCode' = IF exists THEN exitCode ELSE 1
    /\ reached' = reached \cup {"exists"}
    /\ UNCHANGED <<typeMapStr, exists, file, df, loaded, type_map, segIdx, colIdx, col_type_name,
                   colState, exc, outFile, pass, prev>>

\* line 128, then the call of line 131
ReadCsvOk ==
    /\ pc = "read_csv"
    /\ df' = ReadCsv(file)
    /\ loaded' = df'
    /\ colState' = Unclassified(df')
    /\ pc' = "parse"
    /\ reached' = reached \cup {"read_csv"}
    /\ UNCHANGED <<typeMapStr, exists, file, type_map, segIdx, colIdx, col_type_name, exc,
                   exitCode, outFile, pass, prev>>

\* line 128 raising: the file vanished, cannot be parsed or decoded, cannot be read
ReadCsvFails ==
    /\ pc = "read_csv"
    /\ \E e \in {"FileNotFoundError", "ValueError", "OSError"} :
         exc' = [type |-> e, at |-> "read_csv"]
    /\ pc' = "raised"
    /\ reached' = reached \cup {"read_csv"}
    /\ UNCHANGED <<typeMapStr, exists, file, df, loaded, type_map, segIdx, colIdx, col_type_name,
                   colState, exitCode, outFile, pass, prev>>

\* lines 134-135: the output is written and main returns
ToCsvOk ==
    /\ pc = "returned"
    /\ outFile' = [status |-> "complete", grid |-> ToCsv(df)]
    /\ exitCode' = 0
    /\ pc' = "exit"
    /\ reached' = reached \cup {"to_csv"}
    /\ UNCHANGED <<typeMapStr, exists, file, df, loaded, type_map, segIdx, colIdx, col_type_name,
                   colState, exc, pass, prev>>

\* line 134 raising: the output cannot be opened, or the write breaks off
ToCsvFails ==
    /\ pc = "returned"
    /\ \E st \in {"absent", "partial"} : outFile' = [status |-> st, grid |-> <<>>]
    /\ exc' = [type |-> "OSError", at |-> "to_csv"]
    /\ pc' = "raised"
    /\ reached' = reached \cup {"to_csv"}
    /\ UNCHANGED <<typeMapStr, exists, file, df, loaded, type_map, segIdx, colIdx, col_type_name,
                   colState, exitCode, pass, prev>>

\* faulty variant: the handlers log and return, the process ends with exit code 0
HandleException_Returns ==
    /\ pc = "raised"
    /\ exitCode' = 0
    /\ pc' = "exit"
    /\ UNCHANGED <<typeMapStr, exists, file, df, loaded, type_map, segIdx, colIdx,
                   col_type_name, colState, exc, outFile, reached, pass, prev>>

\* lines 137-146: every handler logs and calls sys.exit(1)
HandleException ==
    /\ pc = "raised"
    /\ exitCode' = 1
    /\ pc' = "exit"
    /\ UNCHANGED <<typeMapStr, exists, file, df, loaded, type_map, segIdx, colIdx, col_type_name,
                   colState, exc, outFile, reached, pass, prev>>

Init ==
    /\ pc = "start"
    /\ typeMapStr \in MainMaps
    /\ exists \in BOOLEAN
    /\ file \in CsvFiles
    /\ df = <<>>
    /\ loaded = <<>>
    /\ type_map = EmptyMap
    /\ segIdx = 1
    /\ colIdx = 1
    /\ col_type_name = "none"
    /\ colState = <<>>
    /\ exc = NoExc
    /\ exitCode = -1
    /\ outFile = NoFile
    /\ reached = {}
    /\ pass = 1
    /\ prev = NoPrev

Next ==
    \/ CheckExists
    \/ ReadCsvOk
    \/ ReadCsvFails
    \/ ParseSegment
    \/ Classify
    \/ Cast
    \/ ToCsvOk
    \/ ToCsvFails
    \/ HandleException

Spec == Init /\ [][Next]_vars


(* -------------- generalize_data_type called by other code -------------- *)
Snapshot == [df |-> df, type_map |-> type_map, str |-> typeMapStr, exc |-> exc]

\* the caller passes the DataFrame it got back to a second call, same string
SecondCall ==
    /\ pc = "returned"
    /\ pass = 1
    /\ prev' = Snapshot
    /\ pass' = 2
    /\ type_map' = EmptyMap
    /\ segIdx' = 1
    /\ colIdx' = 1
    /\ col_type_name' = "none"
    /\ colState' = Unclassified(df)
    /\ pc' = "parse"
    /\ UNCHANGED <<typeMapStr, exists, file, df, loaded, exc, exitCode, outFile, reached>>

\* the caller calls again on the table as it was, the segments in another order
Reorder ==
    /\ pc \in {"returned", "raised"}
    /\ pass = 1
    /\ \E perm \in Permutations(1..Len(Segments)) :
         typeMapStr' = Join([i \in 1..Len(Segments) |-> Segments[perm[i]]], ",")
    /\ prev' = Snapshot
    /\ pass' = 2
    /\ df' = loaded
    /\ exc' = NoExc
    /\ type_map' = EmptyMap
    /\ segIdx' = 1
    /\ colIdx' = 1
    /\ col_type_name' = "none"
    /\ colState' = Unclassified(loaded)
    /\ reached' = {}
    /\ pc' = "parse"
    /\ UNCHANGED <<exists, file, loaded, exitCode, outFile>>

InitCalled(maps, tables) ==
    /\ pc = "parse"
    /\ typeMapStr \in maps
    /\ exists = TRUE
    /\ file = <<>>
    /\ df \in tables
    /\ loaded = df
    /\ type_map = EmptyMap
    /\ segIdx = 1
    /\ colIdx = 1
    /\ col_type_name = "none"
    /\ colState = Unclassified(df)
    /\ exc = NoExc
    /\ exitCode = -1
    /\ outFile = NoFile
    /\ reached = {}
    /\ pass = 1
    /\ prev = NoPrev

InitCall == InitCalled(CallMaps, AnyTables)

NextCall ==
    \/ ParseSegment
    \/ Classify
    \/ Cast
    \/ SecondCall

SpecCall == InitCall /\ [][NextCall]_vars

InitParse == InitCalled(MapStrings, ParseTables)

NextParse ==
    \/ ParseSegment
    \/ Classify
    \/ Cast
    \/ Reorder

SpecParse == InitParse /\ [][NextParse]_vars


(* ------------------------------- claims -------------------------------- *)
Returned   == pc = "returned" \/ (pc = "exit" /\ exitCode = 0)
LabelAt(j) == InferLabel(loaded[j]).label
ParseDone  == pc \in {"classify", "cast", "returned", "raised"}
ParseFailed == exc.at = "parse"

\* C1: after generalize_data_type returns, every column whose inferred label is no
\* key of the type map holds exactly the cell values it held when it was loaded,
\* columns of dtype object with missing cells included.
C1_UnmappedColumnsUnchanged ==
    Returned =>
        \A j \in 1..Len(df) :
            LabelAt(j) \notin DOMAIN type_map => df[j].cells = loaded[j].cells

\* C2 as stated: a run that does not end with exit code 0 ends with exit code 1,
\* has never reached the write of the output file and leaves no output file.
C2_NoWriteOnAnyFailure ==
    (pc = "exit" /\ exitCode # 0) =>
        exitCode = 1 /\ "to_csv" \notin reached /\ outFile = NoFile

\* C2 amended: a complete output file exists only on a run that ends with exit
\* code 0; every failure that arises before the write (missing input, read error,
\* type-map error, failed cast) ends with exit code 1 without the write being
\* reached; a failure of the write itself ends with exit code 1 as well, the
\* output file then being absent or partial.
C2_WriteOnlyAfterSuccess ==
    /\ outFile.status = "complete" => pc = "exit" /\ exitCode = 0
    /\ (exc # NoExc /\ exc.at # "to_csv") => "to_csv" \notin reached /\ outFile = NoFile
    /\ ~exists => "to_csv" \notin reached /\ outFile = NoFile
    /\ pc = "exit" =>
          /\ exitCode \in {0, 1}
          /\ exitCode = 0 <=> (exists /\ exc = NoExc)
          /\ exitCode = 0 => outFile = [status |-> "complete", grid |-> ToCsv(df)]
          /\ exc.at = "to_csv" => exitCode = 1 /\ outFile.status \in {"absent", "partial"}

C2_Witness ==
    pc = "exit" /\ exitCode = 1 /\ exc = [type |-> "ValueError", at |-> "cast"]
        /\ \E j \in 1..Len(df) : colState[j] = "Failed"

\* C3 as stated: when the type-map error is raised the input table has not been
\* loaded and the output has not been written.
C3_TypeMapErrorBeforeTableIO ==
    ParseFailed => "read_csv" \notin reached /\ "to_csv" \notin reached

\* C3 amended: when the --type_map string fails the grammar or vocabulary check,
\* the input table has already been loaded, but the error is raised before any
\* column is classified or cast and before the output is written, and the
\* process exits with code 1.
C3_TypeMapErrorBeforeColumns ==
    ParseFailed =>
        /\ "read_csv" \in reached /\ loaded = ReadCsv(file)
        /\ "columns" \notin reached /\ df = loaded
        /\ "to_csv" \notin reached /\ outFile = NoFile
        /\ pc \in {"raised", "exit"}
        /\ pc = "exit" => exitCode = 1

C3_Witness == ParseFailed /\ pc = "exit" /\ exitCode = 1 /\ Len(loaded) > 0

\* C4: when the input file does not exist the process exits with code 1 at once:
\* the type map is never parsed, the table never loaded, no output written,
\* whether the --type_map string is valid or not.
C4_MissingInputExitsAtOnce ==
    ~exists =>
        /\ pc \in {"start", "exit"}
        /\ pc = "exit" => exitCode = 1
        /\ reached \subseteq {"exists"}
        /\ type_map = EmptyMap /\ segIdx = 1
        /\ df = <<>> /\ loaded = <<>>
        /\ outFile = NoFile

C4_Witness ==
    ~exists /\ pc = "exit" /\ exitCode = 1 /\ SegError(Segments[1]) = "none"

\* C5: parsing fails exactly when some comma-separated segment does not split on
\* ':' into two tokens or has a token that, trimmed and lower-cased, is outside
\* the vocabulary; otherwise the mapping's keys and values are in the vocabulary;
\* on failure no column of the table has been touched.
VocabWords == { Word(l) : l \in Vocab }

WellFormed(seg) ==
    LET toks == Split(seg, ":")
    IN  Len(toks) = 2 /\ \A i \in 1..2 : Lower(Strip(toks[i])) \in VocabWords

C5_ParseFailsIffBadSegment ==
    /\ pc = "parse" => df = loaded /\ "columns" \notin reached
    /\ ParseDone =>
          /\ ParseFailed <=> \E i \in 1..Len(Segments) : ~WellFormed(Segments[i])
          /\ ParseFailed =>
                /\ df = loaded
                /\ colState = Unclassified(loaded)
                /\ "columns" \notin reached
          /\ ~ParseFailed =>
                /\ DOMAIN type_map # {}
                /\ DOMAIN type_map \subseteq Vocab
                /\ \A l \in DOMAIN type_map : type_map[l] \in Vocab

C5_Witness ==
    /\ pc = "raised" /\ ParseFailed /\ segIdx = 2
    /\ WellFormed(Segments[1]) /\ ~WellFormed(Segments[2])

\* C6: for a valid type-map string the parsed mapping does not depend on the order
\* of the segments, but for a source label that occurs in several segments: the
\* target of its last occurrence is the one kept.
KeysOf(str) == { SegOld(Split(str, ",")[i]) : i \in 1..Len(Split(str, ",")) }

LastTarget(str, key) ==
    LET segs == Split(str, ",")
        last == CHOOSE i \in 1..Len(segs) :
                    /\ SegOld(segs[i]) = key
                    /\ \A h \in (i + 1)..Len(segs) : SegOld(segs[h]) # key
    IN  SegNew(segs[last])

DistinctKeys(str) ==
    \A i, h \in 1..Len(Split(str, ",")) :
        i # h => SegOld(Split(str, ",")[i]) # SegOld(Split(str, ",")[h])

C6_OrderOnlyMattersForDuplicates ==
    (pass = 2 /\ ParseDone /\ prev.exc.at # "parse") =>
        /\ ~ParseFailed
        /\ DOMAIN type_map = KeysOf(typeMapStr)
        /\ DOMAIN type_map = DOMAIN prev.type_map
        /\ \A l \in DOMAIN type_map :
              /\ type_map[l] = LastTarget(typeMapStr, l)
              /\ prev.type_map[l] = LastTarget(prev.str, l)
        /\ DistinctKeys(typeMapStr) => type_map = prev.type_map

C6_Witness ==
    /\ pass = 2 /\ pc = "returned" /\ typeMapStr # prev.str
    /\ ~DistinctKeys(typeMapStr) /\ type_map # prev.type_map

\* C7: with the map "int:float", a second application of generalize_data_type to
\* the result of the first changes no column: no column is classified int any
\* more, none is cast, and the table after two passes equals the table after one.
C7_IntFloatIdempotent ==
    (typeMapStr = IntFloat /\ pass = 2) =>
        /\ df = prev.df
        /\ pc # "raised"
        /\ col_type_name # "int"
        /\ \A j \in 1..Len(df) : colState[j] # "Converted"

C7_Witness ==
    /\ typeMapStr = IntFloat /\ pass = 2 /\ pc = "returned"
    /\ \E j \in 1..Len(df) : loaded[j].dtype = "int64" /\ df[j].dtype = "float64"
    /\ \E j \in 1..Len(df) : loaded[j].dtype = "object"

\* C8: a column whose inferred label maps to the target "object" is left as it
\* is, its cell values after generalization being those it was loaded with, so a
\* run with --type_map "str:object" or "object:object" writes the input back.
C8_ObjectTargetLeavesColumn ==
    /\ Returned =>
          \A j \in 1..Len(df) :
              (LabelAt(j) \in DOMAIN type_map /\ type_map[LabelAt(j)] = "object")
                  => df[j].cells = loaded[j].cells
    /\ (pc = "exit" /\ exitCode = 0
            /\ typeMapStr \in {Seg(W_str, W_object), Seg(W_object, W_object)})
          => outFile.grid = file

\* C9: the columns are classified and cast one after another in column order,
\* each going Unclassified -> Classified -> NoOp, Converted or Failed; once a
\* column has failed nothing more happens to any column; no column is classified
\* or cast before every column ahead of it is NoOp or Converted.
ColumnStep ==
    { <<"Unclassified", "Classified">>, <<"Classified", "NoOp">>,
      <<"Classified", "Converted">>, <<"Classified", "Failed">> }

SomeFailed == \E j \in 1..Len(colState) : colState[j] = "Failed"

C9_InOrder ==
    /\ \A j \in 1..Len(colState) :
          colState[j] \in {"Unclassified", "Classified", "NoOp", "Converted", "Failed"}
    /\ \A i, j \in 1..Len(colState) :
          (i < j /\ colState[j] # "Unclassified") => colState[i] \in {"NoOp", "Converted"}
    /\ \A j \in 1..Len(colState) :
          (colState[j] = "Unclassified" /\ j <= Len(loaded)) => df[j] = loaded[j]
    /\ SomeFailed => pc \in {"raised", "exit"}

C9_ColumnsStrictlySequential ==
    /\ []C9_InOrder
    /\ [][ /\ Len(colState) = Len(colState') =>
                \A j \in 1..Len(colState) :
                    colState'[j] = colState[j] \/ <<colState[j], colState'[j]>> \in ColumnStep
           /\ SomeFailed => colState' = colState /\ df' = df ]_vars

C9_Witness ==
    /\ Len(colState) = 2
    /\ colState[1] = "Converted" /\ colState[2] = "Failed"

\* C10: inference follows the priority generic/untyped -> "str", integer -> "int",
\* float -> "float", boolean -> "bool", anything else -> "object"; a generic
\* column is always "str" and never "object", so a rule keyed on "object" is
\* never applied to it and a rule keyed on "str" always is.
PriorityLabel(dtype) ==
    CASE dtype = "object"  -> "str"
      [] dtype = "int64"   -> "int"
      [] dtype = "float64" -> "float"
      [] dtype = "bool"    -> "bool"
      [] OTHER             -> "object"

DtypeOf(label, before) ==
    CASE label = "float" -> "float64"
      [] label = "int"   -> "int64"
      [] label = "bool"  -> "bool"
      [] label = "str"   -> "object"
      [] OTHER           -> before

=============================================================================
